---- MODULE Spec2Model ----
(***************************************************************************)
(* A model of libaugrim's flooding consensus: the FloodingContext, the     *)
(* FloodingAlgorithm transition function, and a host that threads one      *)
(* context through a sequence of events; then a system of such hosts, the  *)
(* BestEffortBroadcastSender, the IntraProcessNetwork and the two-phase-   *)
(* commit context builder, each driven on its own.                         *)
(*                                                                         *)
(* Rust vectors are modelled as TLA+ sequences.  A Rust index n (0-based)  *)
(* is the TLA+ index n + 1; an index n of a vector v is in bounds exactly  *)
(* when n < Len(v), and an out-of-bounds index panics.                     *)
(***************************************************************************)
EXTENDS Integers, Sequences, FiniteSets, TLC

VARIABLES
    members,    \* the membership the context was created over
    ctx,        \* the context the host stores
    prev,       \* the context the host stored before the last event
    lastEvent,  \* the last event handed to event()
    result,     \* what that call returned
    checked,    \* the context decide_or_next_round was entered with, if it ran
    nEvents,    \* the number of events handled so far
    decides,    \* the number of Decide actions returned so far
    \* a system of processes, each a host of its own context
    pctx,       \* the context each process stores
    crashed,    \* the processes that have crashed
    halted,     \* the processes ended by a panic of event()
    net,        \* the messages in flight
    detected,   \* the crashes the failure detector has reported to each process
    proposed,   \* the value each process passed to Propose, if it has
    emitted,    \* the values of the Decide actions each process returned
    dups,       \* the number of duplicated deliveries so far
    \* the library's other components, each driven on its own
    beb,        \* a BestEffortBroadcastSender and the sends of its last call
    ipn,        \* an IntraProcessNetwork, its threads and its receivers
    tpc         \* a TwoPhaseCommitContextBuilder and the contexts made from it

hostVars == <<members, ctx, prev, lastEvent, result, checked, nEvents, decides>>
sysVars == <<pctx, crashed, halted, net, detected, proposed, emitted, dups>>
libVars == <<beb, ipn, tpc>>
vars == <<hostVars, sysVars, libVars>>

(***************************************************************************)
(* Bounds of the model.                                                    *)
(***************************************************************************)
\* The longest sequence of events fed to one context.
MaxEvents == 4

\* The sizes of the memberships a context is created over.
MemberSizes == {1, 2}

\* The system of processes: its size, the crashes and the duplicated
\* deliveries a run may hold.
SysSize == 2
MaxCrashes == 1
MaxDups == 1

\* The proposable values; the selection function takes the minimum.
Values == {1, 2}
\* The value lists a delivered Proposal message may carry.
ValueSeqs == {<<>>} \cup {<<v>> : v \in Values}

\* Option::None for the decision field; Some(v) is v itself, v \in Values.
None == 0

(***************************************************************************)
(* Vec operations used by the code.                                        *)
(***************************************************************************)
\* v[n] with a 0-based index n
Get(v, n) == v[n + 1]

\* whether the 0-based index n is in bounds of v (otherwise v[n] panics)
InBounds(v, n) == n >= 0 /\ n < Len(v)

\* Vec::contains
Contains(v, x) == \E i \in 1..Len(v) : v[i] = x

\* iter().position(|p| *p == x): the first TLA+ index holding x, 0 for None
Position(v, x) ==
    IF Contains(v, x)
    THEN CHOOSE i \in 1..Len(v) : v[i] = x /\ \A j \in 1..(i - 1) : v[j] # x
    ELSE 0

\* Vec::swap_remove at TLA+ index i: the last element takes the place of v[i]
SwapRemove_Truncate(v, i) == SubSeq(v, 1, Len(v) - 1)
SwapRemove(v, i) ==
    [j \in 1..(Len(v) - 1) |-> IF j = i THEN v[Len(v)] ELSE v[j]]

\* v with the 0-based entry n replaced by x
Set(v, n, x) == [v EXCEPT ![n + 1] = x]

\* the set of elements of v
Elems(v) == {v[i] : i \in 1..Len(v)}

(***************************************************************************)
(* FloodingContext                                                         *)
(***************************************************************************)
\* FloodingContext::new
FloodingContextNew_RoundZero(processes) ==
    [correct       |-> processes,
     round         |-> 0,
     decision      |-> None,
     received_from |-> [n \in 1..Len(processes) |->
                           IF n = 1 THEN processes ELSE <<>>],
     proposals     |-> [n \in 1..Len(processes) |-> <<>>]]
FloodingContextNew_SeedsEveryRound(processes) ==
    [correct       |-> processes,
     round         |-> 1,
     decision      |-> None,
     received_from |-> [n \in 1..Len(processes) |-> processes],
     proposals     |-> [n \in 1..Len(processes) |-> <<>>]]
FloodingContextNew(processes) ==
    [correct       |-> processes,
     round         |-> 1,
     decision      |-> None,
     received_from |-> [n \in 1..Len(processes) |->
                           IF n = 1 THEN processes ELSE <<>>],
     proposals     |-> [n \in 1..Len(processes) |-> <<>>]]

(***************************************************************************)
(* Messages, actions and events                                            *)
(***************************************************************************)
\* FloodingMessage, as records of one shape: Decided(v) carries v as its
\* only value and no round
Proposal(round, values) == [type |-> "Proposal", round |-> round, values |-> values]
Decided(value) == [type |-> "Decided", round |-> 0, values |-> <<value>>]

UpdateContext(context) == [type |-> "UpdateContext", context |-> context]
Broadcast(message) == [type |-> "Broadcast", message |-> message]
Decide(value) == [type |-> "Decide", value |-> value]

Crash(p) == [type |-> "Crash", process |-> p]
Deliver(p, m) == [type |-> "Deliver", process |-> p, message |-> m]
Propose(v) == [type |-> "Propose", value |-> v]

\* Result<Vec<FloodingAction>, InternalError>, or a panic of the call
Ok(actions) == [status |-> "Ok", actions |-> actions]
Err == [status |-> "Err", actions |-> <<>>]
Panic == [status |-> "Panic", actions |-> <<>>]

(***************************************************************************)
(* FloodingAlgorithm                                                       *)
(***************************************************************************)
\* the selection function: the minimum of the proposals, an error on none
Min(S) == CHOOSE x \in S : \A y \in S : x <= y
select_func_ReturnsIndex(values) ==
    IF values = <<>>
    THEN [ok |-> FALSE, value |-> None]
    ELSE [ok |-> TRUE, value |-> Position(values, Min(Elems(values)))]
select_func(values) ==
    IF values = <<>>
    THEN [ok |-> FALSE, value |-> None]
    ELSE [ok |-> TRUE, value |-> Min(Elems(values))]

\* the test of line 136..140: correct is a subset of received_from[round]
\* and decision is None (evaluated only when the index is in bounds)
CheckApplies_NoDecisionTest(context) ==
    \A i \in 1..Len(context.correct) :
        Contains(Get(context.received_from, context.round), context.correct[i])
CheckApplies_AnyCorrect(context) ==
    /\ \E i \in 1..Len(context.correct) :
          Contains(Get(context.received_from, context.round), context.correct[i])
    /\ context.decision = None
CheckApplies(context) ==
    /\ \A i \in 1..Len(context.correct) :
          Contains(Get(context.received_from, context.round), context.correct[i])
    /\ context.decision = None

\* the test of line 144..148: same length, and every process of
\* received_from[round] is in received_from[round - 1]
SameAsPreviousRound(context) ==
    LET cur == Get(context.received_from, context.round)
        prv == Get(context.received_from, context.round - 1)
    IN  /\ Len(cur) = Len(prv)
        /\ \A i \in 1..Len(cur) : Contains(prv, cur[i])

\* line 157: context.set_round(context.round() + 1)
NextRound(round) == round + 1

\* decide_or_next_round selecting among the values of the previous round and
\* the current one
decide_or_next_round_SelectsTwoRounds(context, actions) ==
    LET round == context.round
        out(s, c, a) == [status |-> s, context |-> c, actions |-> a]
    IN  IF ~InBounds(context.received_from, round)
           \/ ~InBounds(context.proposals, round)
        THEN out("Panic", context, actions)
        ELSE IF ~CheckApplies(context)
        THEN out("Ok", context, actions)
        ELSE IF SameAsPreviousRound(context)
        THEN LET sel == select_func(Get(context.proposals, round - 1)
                                        \o Get(context.proposals, round))
             IN  IF ~sel.ok
                 THEN out("Err", context, actions)
                 ELSE out("Ok",
                          [context EXCEPT !.decision = sel.value],
                          actions \o <<Broadcast(Decided(sel.value)),
                                       Decide(sel.value)>>)
        ELSE out("Ok",
                 [context EXCEPT !.round = NextRound(round)],
                 actions \o <<Broadcast(Proposal(NextRound(round),
                                  Get(context.proposals,
                                      NextRound(round) - 1)))>>)

\* decide_or_next_round: the outcome, the context and the actions after it.
\* received_from[round] is indexed by the closure of any() when correct is
\* not empty, and by line 144 when the && passed.
decide_or_next_round(context, actions) ==
    LET round == context.round
        out(s, c, a) == [status |-> s, context |-> c, actions |-> a]
    IN  IF context.correct # <<>> /\ ~InBounds(context.received_from, round)
        THEN out("Panic", context, actions)
        ELSE IF context.correct = <<>> /\ context.decision # None
        THEN out("Ok", context, actions)
        ELSE IF ~InBounds(context.received_from, round)
        THEN out("Panic", context, actions)
        ELSE IF ~CheckApplies(context)
        THEN out("Ok", context, actions)
        ELSE IF SameAsPreviousRound(context)
        THEN IF ~InBounds(context.proposals, round)
             THEN out("Panic", context, actions)
             ELSE LET sel == select_func(Get(context.proposals, round))
                  IN  IF ~sel.ok
                      THEN out("Err", context, actions)
                      ELSE out("Ok",
                               [context EXCEPT !.decision = sel.value],
                               actions \o <<Broadcast(Decided(sel.value)),
                                            Decide(sel.value)>>)
        ELSE IF ~InBounds(context.proposals, NextRound(round) - 1)
             THEN out("Panic", [context EXCEPT !.round = NextRound(round)], actions)
             ELSE out("Ok",
                      [context EXCEPT !.round = NextRound(round)],
                      actions \o <<Broadcast(Proposal(NextRound(round),
                                       Get(context.proposals,
                                           NextRound(round) - 1)))>>)

\* the tail of handle_crash and handle_deliver_proposal: `?` on the check,
\* then actions.insert(0, UpdateContext(context))
InsertUpdateContext_IgnoreError(d) ==
    IF d.status = "Panic"
    THEN Panic
    ELSE Ok(<<UpdateContext(d.context)>> \o d.actions)
InsertUpdateContext(d) ==
    IF d.status = "Ok"
    THEN Ok(<<UpdateContext(d.context)>> \o d.actions)
    ELSE [status |-> d.status, actions |-> <<>>]

handle_crash(context, process) ==
    LET i == Position(context.correct, process)
    IN  IF i = 0
        THEN Ok(<<>>)
        ELSE InsertUpdateContext(
                 decide_or_next_round(
                     [context EXCEPT !.correct = SwapRemove(@, i)], <<>>))

handle_propose(context, value) ==
    IF ~InBounds(context.proposals, 1)
    THEN Panic
    ELSE LET c == [context EXCEPT
                      !.proposals = Set(@, 1, Append(Get(@, 1), value))]
         IN  Ok(<<UpdateContext(c),
                  Broadcast(Proposal(1, Get(c.proposals, 1)))>>)

\* the context after lines 104..105
RecordProposal_RetrustSender(context, process, round, proposals) ==
    [context EXCEPT
        !.correct = IF Contains(@, process) THEN @ ELSE Append(@, process),
        !.received_from = Set(@, round, Append(Get(@, round), process)),
        !.proposals = Set(@, round, Get(@, round) \o proposals)]
RecordProposal_ReplacesValues(context, process, round, proposals) ==
    [context EXCEPT
        !.received_from = Set(@, round, Append(Get(@, round), process)),
        !.proposals = Set(@, round, proposals)]
RecordProposal(context, process, round, proposals) ==
    [context EXCEPT
        !.received_from = Set(@, round, Append(Get(@, round), process)),
        !.proposals = Set(@, round, Get(@, round) \o proposals)]

handle_deliver_proposal(context, process, round, proposals) ==
    IF ~InBounds(context.received_from, round)
       \/ ~InBounds(context.proposals, round)
    THEN Panic
    ELSE LET c == RecordProposal(context, process, round, proposals)
         IN  IF round = c.round
             THEN InsertUpdateContext(decide_or_next_round(c, <<>>))
             ELSE Ok(<<UpdateContext(c)>>)

\* the context is mutated by line 185 and then dropped: the returned list
\* carries no UpdateContext
handle_deliver_decided(context, process, decision) ==
    IF Contains(context.correct, process) /\ context.decision = None
    THEN Ok(<<Broadcast(Decided(decision)), Decide(decision)>>)
    ELSE Ok(<<>>)

\* Algorithm::event
event(ev, context) ==
    IF ev.type = "Crash" THEN handle_crash(context, ev.process)
    ELSE IF ev.type = "Propose" THEN handle_propose(context, ev.value)
    ELSE IF ev.message.type = "Proposal"
    THEN handle_deliver_proposal(context, ev.process,
                                 ev.message.round, ev.message.values)
    ELSE handle_deliver_decided(context, ev.process, ev.message.values[1])

\* the context the handler passes to decide_or_next_round, if it gets there
CheckedContext(ev, context) ==
    LET no == [ran |-> FALSE, context |-> context]
    IN  IF ev.type = "Crash"
        THEN LET i == Position(context.correct, ev.process)
             IN  IF i = 0 THEN no
                 ELSE [ran |-> TRUE,
                       context |-> [context EXCEPT !.correct = SwapRemove(@, i)]]
        ELSE IF ev.type = "Deliver" /\ ev.message.type = "Proposal"
                /\ InBounds(context.received_from, ev.message.round)
                /\ ev.message.round = context.round
        THEN [ran |-> TRUE,
              context |-> RecordProposal(context, ev.process,
                                         ev.message.round, ev.message.values)]
        ELSE no

(***************************************************************************)
(* The host of one process: it hands each event and its stored context to  *)
(* event(), and replaces the stored context by the one of the returned     *)
(* UpdateContext; a list without one leaves the stored context as it was.  *)
(* A panic of the call ends the process.                                   *)
(***************************************************************************)
HasAction(actions, type) == \E i \in 1..Len(actions) : actions[i].type = type

CountAction(actions, type) ==
    Cardinality({i \in 1..Len(actions) : actions[i].type = type})

HostContext(context, r) ==
    IF HasAction(r.actions, "UpdateContext")
    THEN r.actions[CHOOSE i \in 1..Len(r.actions) :
                      /\ r.actions[i].type = "UpdateContext"
                      /\ \A j \in 1..(i - 1) : r.actions[j].type # "UpdateContext"
                  ].context
    ELSE context

HostApply(ev) ==
    /\ result.status # "Panic"
    /\ nEvents < MaxEvents
    /\ LET r == event(ev, ctx)
       IN  /\ result' = r
           /\ ctx' = HostContext(ctx, r)
           /\ decides' = decides + CountAction(r.actions, "Decide")
    /\ checked' = CheckedContext(ev, ctx)
    /\ prev' = ctx
    /\ lastEvent' = ev
    /\ nEvents' = nEvents + 1
    /\ UNCHANGED members
    /\ UNCHANGED sysVars
    /\ UNCHANGED libVars

\* the other components' variables while the flooding algorithm is driven
LibIdle ==
    /\ beb = <<>>
    /\ ipn = <<>>
    /\ tpc = <<>>

\* the system's variables while one context alone is driven
SysIdle ==
    /\ pctx = <<>>
    /\ crashed = {}
    /\ halted = {}
    /\ net = {}
    /\ detected = <<>>
    /\ proposed = <<>>
    /\ emitted = <<>>
    /\ dups = 0

Procs == 1..Len(members)

\* the rounds a delivered Proposal may name: 0 .. membership size, the last
\* one beyond the rounds FloodingContext::new allocates
Rounds == 0..Len(members)

CrashEvent == \E p \in Procs : HostApply(Crash(p))

ProposeEvent == \E v \in Values : HostApply(Propose(v))

DeliverProposalEvent ==
    \E p \in Procs, r \in Rounds, vs \in ValueSeqs :
        HostApply(Deliver(p, Proposal(r, vs)))

DeliverDecidedEvent ==
    \E p \in Procs, v \in Values : HostApply(Deliver(p, Decided(v)))

Init ==
    /\ members \in {[i \in 1..n |-> i] : n \in MemberSizes}
    /\ ctx = FloodingContextNew(members)
    /\ prev = ctx
    /\ lastEvent = [type |-> "None"]
    /\ result = Ok(<<>>)
    /\ checked = [ran |-> FALSE, context |-> ctx]
    /\ nEvents = 0
    /\ decides = 0
    /\ SysIdle
    /\ LibIdle

Next ==
    \/ CrashEvent
    \/ ProposeEvent
    \/ DeliverProposalEvent
    \/ DeliverDecidedEvent

Spec == Init /\ [][Next]_vars

(***************************************************************************)
(* A system of SysSize processes.  Each process is a host that hands its   *)
(* events to event() and applies the returned actions in order:            *)
(* UpdateContext replaces its stored context, Broadcast sends the message  *)
(* to every process of the membership (BestEffortBroadcastSender), Decide  *)
(* reaches the application.  The failure detector reports only processes   *)
(* that have stopped.  A message is lost only when its sender crashes      *)
(* during the broadcast loop: the processes after the first k of the       *)
(* membership do not get it.                                               *)
(***************************************************************************)
SysMembers == [i \in 1..SysSize |-> i]
SysProcs == 1..SysSize

\* the processes that take no more steps
Stopped == crashed \cup halted

\* the first Broadcast of an action list, as a set of 0 or 1 messages
BroadcastOf(actions) ==
    {actions[i].message : i \in {j \in 1..Len(actions) :
                                    actions[j].type = "Broadcast"}}

\* BestEffortBroadcastSender::broadcast, cut after the first k sends
BroadcastTo(src, message, k) ==
    {[src |-> src, dst |-> SysMembers[i], msg |-> message] : i \in 1..k}

\* the values of the Decide actions of a list
DecideValues(actions) ==
    {actions[i].value : i \in {j \in 1..Len(actions) :
                                  actions[j].type = "Decide"}}

\* Process p handles event ev and applies the returned actions; with
\* k < SysSize it crashes in the broadcast loop after k sends.
SysHandle(p, ev, k, taken) ==
    LET r == event(ev, pctx[p])
        dies == k < SysSize
        sent == UNION {BroadcastTo(p, m, k) : m \in BroadcastOf(r.actions)}
        gone == Stopped \cup (IF dies \/ r.status = "Panic" THEN {p} ELSE {})
    IN  /\ p \notin Stopped
        /\ dies => /\ Cardinality(crashed) < MaxCrashes
                   /\ r.status = "Ok"
                   /\ HasAction(r.actions, "Broadcast")
        /\ pctx' = [pctx EXCEPT ![p] = HostContext(@, r)]
        /\ crashed' = IF dies THEN crashed \cup {p} ELSE crashed
        /\ halted' = IF r.status = "Panic" THEN halted \cup {p} ELSE halted
        /\ net' = {m \in (net \ taken) \cup sent : m.dst \notin gone}
        /\ emitted' = IF dies THEN emitted
                      ELSE [emitted EXCEPT ![p] = @ \cup DecideValues(r.actions)]

SysPropose ==
    \E p \in SysProcs, v \in Values, k \in 0..SysSize :
        /\ proposed[p] = None
        /\ SysHandle(p, Propose(v), k, {})
        /\ proposed' = [proposed EXCEPT ![p] = v]
        /\ UNCHANGED <<detected, dups>>
        /\ UNCHANGED <<hostVars, libVars>>

SysDetect ==
    \E p \in SysProcs, q \in Stopped, k \in 0..SysSize :
        /\ q \notin detected[p]
        /\ SysHandle(p, Crash(q), k, {})
        /\ detected' = [detected EXCEPT ![p] = @ \cup {q}]
        /\ UNCHANGED <<proposed, dups>>
        /\ UNCHANGED <<hostVars, libVars>>

SysDeliver ==
    \E m \in net, k \in 0..SysSize :
        /\ SysHandle(m.dst, Deliver(m.src, m.msg), k, {m})
        /\ UNCHANGED <<detected, proposed, dups>>
        /\ UNCHANGED <<hostVars, libVars>>

SysDeliverDuplicate ==
    \E m \in net, k \in 0..SysSize :
        /\ dups < MaxDups
        /\ SysHandle(m.dst, Deliver(m.src, m.msg), k, {})
        /\ dups' = dups + 1
        /\ UNCHANGED <<detected, proposed>>
        /\ UNCHANGED <<hostVars, libVars>>

\* a process crashes between two events
SysFail ==
    \E p \in SysProcs \ Stopped :
        /\ Cardinality(crashed) < MaxCrashes
        /\ crashed' = crashed \cup {p}
        /\ net' = {m \in net : m.dst # p}
        /\ UNCHANGED <<pctx, halted, detected, proposed, emitted, dups>>
        /\ UNCHANGED <<hostVars, libVars>>

SysInit ==
    /\ pctx = [p \in SysProcs |-> FloodingContextNew(SysMembers)]
    /\ crashed = {}
    /\ halted = {}
    /\ net = {}
    /\ detected = [p \in SysProcs |-> {}]
    /\ proposed = [p \in SysProcs |-> None]
    /\ emitted = [p \in SysProcs |-> {}]
    /\ dups = 0
    /\ members = SysMembers
    /\ ctx = FloodingContextNew(SysMembers)
    /\ prev = ctx
    /\ lastEvent = [type |-> "None"]
    /\ result = Ok(<<>>)
    /\ checked = [ran |-> FALSE, context |-> ctx]
    /\ nEvents = 0
    /\ decides = 0
    /\ LibIdle

SysNext ==
    \/ SysPropose
    \/ SysDetect
    \/ SysDeliver
    \/ SysDeliverDuplicate
    \/ SysFail

SysSpec == SysInit /\ [][SysNext]_vars

\* the steps process p takes to the end (it does not crash in them), by
\* the source of the event
ProposeStep(p) ==
    \E v \in Values :
        /\ proposed[p] = None
        /\ SysHandle(p, Propose(v), SysSize, {})
        /\ proposed' = [proposed EXCEPT ![p] = v]
        /\ UNCHANGED <<detected, dups>>
        /\ UNCHANGED <<hostVars, libVars>>

DetectStep(p, q) ==
    /\ q \in Stopped
    /\ q \notin detected[p]
    /\ SysHandle(p, Crash(q), SysSize, {})
    /\ detected' = [detected EXCEPT ![p] = @ \cup {q}]
    /\ UNCHANGED <<proposed, dups>>
    /\ UNCHANGED <<hostVars, libVars>>

DeliverStep(p, q) ==
    \E m \in net :
        /\ m.dst = p
        /\ m.src = q
        /\ SysHandle(p, Deliver(q, m.msg), SysSize, {m})
        /\ UNCHANGED <<detected, proposed, dups>>
        /\ UNCHANGED <<hostVars, libVars>>

\* Every process that has not stopped proposes, is told of every stopped
\* process, and delivers the messages sent to it.
SysFairSpec ==
    /\ SysInit
    /\ [][SysNext]_vars
    /\ \A p \in SysProcs : WF_vars(ProposeStep(p))
    /\ \A p \in SysProcs : \A q \in SysProcs : WF_vars(DetectStep(p, q))
    /\ \A p \in SysProcs : \A q \in SysProcs : SF_vars(DeliverStep(p, q))

(***************************************************************************)
(* Properties of the system                                                *)
(***************************************************************************)
ProposedValues == {proposed[p] : p \in SysProcs} \ {None}

\* C1: any two processes whose decision is Some hold the same value.
Agreement ==
    \A p \in SysProcs : \A q \in SysProcs :
        (pctx[p].decision # None /\ pctx[q].decision # None)
            => pctx[p].decision = pctx[q].decision

\* C2: a value a process decides, in its context or by a Decide action, was
\* passed to Propose by some process.
Validity ==
    \A p \in SysProcs :
        /\ pctx[p].decision # None => pctx[p].decision \in ProposedValues
        /\ emitted[p] \subseteq ProposedValues

\* a process decided by the convergence check between two proposed values,
\* and another adopted a delivered decision
ValidityWitness ==
    \E p \in SysProcs : \E q \in SysProcs :
        /\ pctx[p].decision # None
        /\ emitted[p] = {pctx[p].decision}
        /\ ProposedValues = Values
        /\ q # p
        /\ pctx[q].decision = None
        /\ emitted[q] # {}

\* C3: every process that never crashes eventually has decision = Some(v)
\* and has returned Decide(v).
Termination ==
    \A p \in SysProcs :
        <>(\/ p \in crashed
           \/ pctx[p].decision # None /\ pctx[p].decision \in emitted[p])

(***************************************************************************)
(* Properties of one context threaded through a sequence of events         *)
(***************************************************************************)
IsDeliverDecided(ev) ==
    ev.type = "Deliver" /\ ev.message.type = "Decided"

IsDeliverProposal(ev) ==
    ev.type = "Deliver" /\ ev.message.type = "Proposal"

\* the contexts carried by the UpdateContext actions of a list
UpdatedContexts(actions) ==
    {actions[i].context : i \in {j \in 1..Len(actions) :
                                    actions[j].type = "UpdateContext"}}

\* C4: once the decision of the stored context is Some(v), every later
\* event leaves it Some(v), and no returned context carries another decision.
DecisionStable ==
    prev.decision # None =>
        /\ ctx.decision = prev.decision
        /\ \A c \in UpdatedContexts(result.actions) : c.decision = prev.decision
        /\ IsDeliverDecided(lastEvent) => result.actions = <<>>

\* a Decided message with another value, from a process still in correct,
\* was delivered to a context that had already decided
DecisionStableWitness ==
    /\ prev.decision # None
    /\ IsDeliverDecided(lastEvent)
    /\ Contains(prev.correct, lastEvent.process)
    /\ lastEvent.message.values[1] # prev.decision
    /\ result.status = "Ok"

\* C5: round starts at 1, never decreases, and one event raises it by at
\* most 1.
RoundMonotonic ==
    /\ nEvents = 0 => ctx.round = 1
    /\ ctx.round >= prev.round
    /\ ctx.round <= prev.round + 1
    /\ \A c \in UpdatedContexts(result.actions) :
          c.round >= prev.round /\ c.round <= prev.round + 1

\* an event advanced the round
RoundMonotonicWitness ==
    /\ nEvents > 0
    /\ prev.round = 1
    /\ ctx.round = 2

\* C6: a non-empty action list starts with UpdateContext, which appears
\* at no later position.
UpdateContextFirst ==
    (result.status = "Ok" /\ result.actions # <<>>) =>
        /\ result.actions[1].type = "UpdateContext"
        /\ \A i \in 2..Len(result.actions) :
              result.actions[i].type # "UpdateContext"

\* C7: a list that holds Decide(v) holds, at an earlier position, an
\* UpdateContext whose context has decision = Some(v).
DecideAfterUpdate ==
    \A i \in 1..Len(result.actions) :
        result.actions[i].type = "Decide" =>
            \E j \in 1..(i - 1) :
                /\ result.actions[j].type = "UpdateContext"
                /\ result.actions[j].context.decision = result.actions[i].value

\* C8: over the events of one process instance, Decide is returned at most
\* once.
DecideAtMostOnce == decides <= 1

\* C9: when the same Deliver(p, Decided(v)) is handled twice in a row, the
\* second call returns neither Broadcast nor Decide.
DecidedAdoptionIdempotent ==
    [][(/\ IsDeliverDecided(lastEvent')
        /\ lastEvent.type = "Deliver"
        /\ lastEvent' = lastEvent
        /\ result.status = "Ok")
       => (/\ ~HasAction(result'.actions, "Broadcast")
           /\ ~HasAction(result'.actions, "Decide"))]_vars

\* the check ran on a context with correct a subset of
\* received_from[round] and decision None, and returned
CheckRanWithPreconditions ==
    /\ checked.ran
    /\ result.status = "Ok"
    /\ InBounds(checked.context.received_from, checked.context.round)
    /\ CheckApplies(checked.context)

\* C10: under the preconditions the check decides exactly when
\* received_from[round] and received_from[round - 1] hold the same set of
\* processes, and advances the round otherwise.
ConvergenceBySetMembership ==
    CheckRanWithPreconditions =>
        LET c == checked.context
            sameSet == Elems(Get(c.received_from, c.round))
                           = Elems(Get(c.received_from, c.round - 1))
        IN  IF sameSet
            THEN /\ ctx.decision # None
                 /\ ctx.round = c.round
                 /\ HasAction(result.actions, "Decide")
            ELSE /\ ctx.decision = None
                 /\ ctx.round = c.round + 1
                 /\ ~HasAction(result.actions, "Decide")

IsCrash(ev) == ev.type = "Crash"

IsPropose(ev) == ev.type = "Propose"

\* C11: Crash(p) with p in correct yields a context whose correct is the
\* previous correct without p and nothing else removed; Crash(p) with p not
\* in correct returns Ok, no Broadcast, no Decide, and an unchanged context.
CrashMonotonicity ==
    IsCrash(lastEvent) =>
        IF Contains(prev.correct, lastEvent.process)
        THEN result.status = "Ok" =>
                /\ UpdatedContexts(result.actions) # {}
                /\ \A c \in UpdatedContexts(result.actions) \cup {ctx} :
                      /\ Elems(c.correct)
                             = Elems(prev.correct) \ {lastEvent.process}
                      /\ Len(c.correct) = Len(prev.correct) - 1
        ELSE /\ result.status = "Ok"
             /\ ~HasAction(result.actions, "Broadcast")
             /\ ~HasAction(result.actions, "Decide")
             /\ UpdatedContexts(result.actions) \subseteq {prev}
             /\ ctx = prev

\* Crash(p) arrived a second time, after the first one removed p, the first
\* entry of a two-process correct
CrashMonotonicityWitness ==
    /\ IsCrash(lastEvent)
    /\ lastEvent.process = 1
    /\ Len(members) = 2
    /\ prev.correct = <<2>>
    /\ result = Ok(<<>>)

\* C12: a process that is not in correct is in correct in no later state, no
\* returned context holds a process the stored one did not, and a Crash(p)
\* that returned Ok leaves p outside correct.
CorrectOnlyShrinks ==
    [][/\ \A p \in Procs :
             ~Contains(ctx.correct, p) => ~Contains(ctx'.correct, p)
       /\ \A c \in UpdatedContexts(result'.actions) :
             Elems(c.correct) \subseteq Elems(ctx.correct)
       /\ (IsCrash(lastEvent') /\ result'.status = "Ok")
             => ~Contains(ctx'.correct, lastEvent'.process)]_vars

\* a Proposal from a process already removed from correct was recorded
CorrectOnlyShrinksWitness ==
    /\ IsDeliverProposal(lastEvent)
    /\ ~Contains(prev.correct, lastEvent.process)
    /\ HasAction(result.actions, "UpdateContext")
    /\ Contains(Get(ctx.received_from, lastEvent.message.round),
                lastEvent.process)

\* C13: every Deliver(p, Proposal(r, values)), whatever r, returns Ok with
\* p appended to received_from[r] and values to proposals[r] (the selection
\* error of the convergence check apart).
ProposalAlwaysBuffered ==
    (IsDeliverProposal(lastEvent) /\ result.status # "Err") =>
        LET r == lastEvent.message.round
        IN  /\ result.status = "Ok"
            /\ InBounds(ctx.received_from, r)
            /\ InBounds(ctx.proposals, r)
            /\ Get(ctx.received_from, r)
                   = Append(Get(prev.received_from, r), lastEvent.process)
            /\ Get(ctx.proposals, r)
                   = Get(prev.proposals, r) \o lastEvent.message.values

\* the convergence check ran on a context in which it has to decide, by its
\* own tests, and proposals[round] holds no value to select from
SelectionFails ==
    /\ checked.ran
    /\ LET c == checked.context
       IN  /\ InBounds(c.received_from, c.round)
           /\ InBounds(c.proposals, c.round)
           /\ Elems(c.correct) \subseteq Elems(Get(c.received_from, c.round))
           /\ c.decision = None
           /\ SameAsPreviousRound(c)
           /\ Get(c.proposals, c.round) = <<>>

\* C14: when the selection function fails in the convergence check, event()
\* returns an error and no action, and the stored context stays as it was
\* before the call; an error is returned in no other way with a context.
SelectionErrorLeavesContext ==
    /\ SelectionFails =>
          /\ result.status = "Err"
          /\ result.actions = <<>>
          /\ ctx = prev
    /\ result.status = "Err" =>
          /\ result.actions = <<>>
          /\ ctx = prev

\* the failing call was a Crash that had removed a process from correct
\* before the check
SelectionErrorLeavesContextWitness ==
    /\ SelectionFails
    /\ IsCrash(lastEvent)
    /\ checked.context.correct # prev.correct
    /\ Contains(ctx.correct, lastEvent.process)

\* C15: once the stored decision is Some, a Propose, Crash or
\* Deliver(Proposal) event returns no Broadcast and no Decide and changes
\* neither round nor decision.
NoOpAfterDecision ==
    (/\ prev.decision # None
     /\ IsPropose(lastEvent) \/ IsCrash(lastEvent) \/ IsDeliverProposal(lastEvent))
        => /\ ~HasAction(result.actions, "Broadcast")
           /\ ~HasAction(result.actions, "Decide")
           /\ ctx.round = prev.round
           /\ ctx.decision = prev.decision

\* the last event of a run without crashes over two or more members: the
\* context's own Propose first, then one Proposal of round 1 from each of
\* all members but one
FaultFreeRoundOne ==
    /\ Len(members) >= 2
    /\ nEvents = Len(members)
    /\ IsDeliverProposal(lastEvent)
    /\ lastEvent.message.round = 1
    /\ prev.correct = members
    /\ prev.round = 1
    /\ prev.decision = None
    /\ Get(prev.proposals, 1) # <<>>
    /\ Len(Get(prev.received_from, 1)) = Len(members) - 2
    /\ Cardinality(Elems(Get(prev.received_from, 1)) \cup {lastEvent.process})
           = Len(members) - 1

\* C16: at the end of such a run received_from[1] holds every member and
\* the last delivery returns [UpdateContext, Broadcast(Decided(d)),
\* Decide(d)], d selected among the values of round 1.
FaultFreeDecision ==
    FaultFreeRoundOne =>
        /\ Elems(Get(ctx.received_from, 1)) = Elems(members)
        /\ Len(result.actions) = 3
        /\ result.actions[1].type = "UpdateContext"
        /\ result.actions[2].type = "Broadcast"
        /\ result.actions[2].message.type = "Decided"
        /\ result.actions[3].type = "Decide"
        /\ result.actions[3].value = result.actions[2].message.values[1]
        /\ result.actions[3].value \in Elems(Get(ctx.proposals, 1))

\* C17: Deliver(p, Decided(v)) with p in correct and decision None sets the
\* decision to Some(v) and returns Broadcast(Decided(v)) followed by
\* Decide(v); any other Deliver(p, Decided(v)) returns neither and leaves
\* the context unchanged.
DecidedAdoption ==
    IsDeliverDecided(lastEvent) =>
        LET v == lastEvent.message.values[1]
        IN  IF Contains(prev.correct, lastEvent.process) /\ prev.decision = None
            THEN /\ ctx.decision = v
                 /\ \E i \in 1..(Len(result.actions) - 1) :
                       /\ result.actions[i] = Broadcast(Decided(v))
                       /\ result.actions[i + 1] = Decide(v)
            ELSE /\ ~HasAction(result.actions, "Broadcast")
                 /\ ~HasAction(result.actions, "Decide")
                 /\ ctx = prev

\* the convergence check ran on a context where some process of correct is
\* missing from received_from[round], or the decision is Some
CheckRanWithoutPreconditions ==
    /\ checked.ran
    /\ LET c == checked.context
       IN  ~(/\ InBounds(c.received_from, c.round)
             /\ Elems(c.correct) \subseteq Elems(Get(c.received_from, c.round))
             /\ c.decision = None)

\* C18: the convergence check changes neither decision nor round and adds
\* no Broadcast and no Decide unless correct is a subset of
\* received_from[round] and decision is None; no Decide is returned while a
\* process of correct is missing from received_from[round].
ConvergenceGuarded ==
    /\ CheckRanWithoutPreconditions =>
          /\ ctx.decision = prev.decision
          /\ ctx.round = prev.round
          /\ \A c \in UpdatedContexts(result.actions) :
                c.decision = prev.decision /\ c.round = prev.round
          /\ ~HasAction(result.actions, "Broadcast")
          /\ ~HasAction(result.actions, "Decide")
    /\ (checked.ran /\ HasAction(result.actions, "Decide")) =>
          Elems(checked.context.correct)
              \subseteq Elems(Get(checked.context.received_from,
                                  checked.context.round))

\* the check ran with a process of correct missing from received_from[round]
\* although received_from[round] passes the comparison with the previous
\* round and there are values to select from
ConvergenceGuardedWitness ==
    /\ CheckRanWithoutPreconditions
    /\ result.status = "Ok"
    /\ checked.context.decision = None
    /\ InBounds(checked.context.received_from, checked.context.round)
    /\ SameAsPreviousRound(checked.context)
    /\ Get(checked.context.proposals, checked.context.round) # <<>>

\* C19: Propose(v), in any state, returns exactly [UpdateContext(c),
\* Broadcast(Proposal(1, c.proposals[1]))] where c.proposals[1] is the
\* previous proposals[1] with v appended and c is otherwise the previous
\* context.
ProposeFrame ==
    IsPropose(lastEvent) =>
        /\ result.status = "Ok"
        /\ Len(result.actions) = 2
        /\ result.actions[1].type = "UpdateContext"
        /\ LET c == result.actions[1].context
           IN  /\ InBounds(c.proposals, 1)
               /\ Get(c.proposals, 1)
                      = Append(Get(prev.proposals, 1), lastEvent.value)
               /\ result.actions[2] = Broadcast(Proposal(1, Get(c.proposals, 1)))
               /\ c = [prev EXCEPT !.proposals = c.proposals]
               /\ \A n \in 0..(Len(prev.proposals) - 1) :
                     n # 1 => Get(c.proposals, n) = Get(prev.proposals, n)
               /\ ctx = c

\* C20: Deliver(p, Proposal(r, values)) with r other than the current
\* round returns exactly [UpdateContext(c)], c being the previous context
\* with p appended to received_from[r] and values to proposals[r].
OtherRoundOnlyBuffers ==
    (IsDeliverProposal(lastEvent) /\ lastEvent.message.round # prev.round) =>
        LET r == lastEvent.message.round
        IN  /\ result.status = "Ok"
            /\ Len(result.actions) = 1
            /\ result.actions[1].type = "UpdateContext"
            /\ InBounds(prev.received_from, r)
            /\ InBounds(prev.proposals, r)
            /\ result.actions[1].context =
                  [prev EXCEPT
                      !.received_from =
                          Set(@, r, Append(Get(@, r), lastEvent.process)),
                      !.proposals =
                          Set(@, r, Get(@, r) \o lastEvent.message.values)]
            /\ ctx = result.actions[1].context

(***************************************************************************)
(* BestEffortBroadcastSender, driven on its own: it is built over a list   *)
(* of processes and a NetworkSender, and broadcast() hands one send per    *)
(* process to the NetworkSender, leaving the loop at the first send that   *)
(* returns an error.  Crash reports reach the owner of the sender; the     *)
(* sender has no operation that takes them.                                *)
(***************************************************************************)
\* the number of broadcast() calls of a run
MaxBroadcasts == 2

\* the process lists a sender is built over, and the messages broadcast
BebMemberships == {<<1>>, <<1, 2>>, <<2, 1, 3>>}
BebMessages == {1, 2}

\* the variables of the flooding host while another component is driven
HostIdle ==
    /\ members = SysMembers
    /\ ctx = FloodingContextNew(SysMembers)
    /\ prev = ctx
    /\ lastEvent = [type |-> "None"]
    /\ result = Ok(<<>>)
    /\ checked = [ran |-> FALSE, context |-> ctx]
    /\ nEvents = 0
    /\ decides = 0

\* BestEffortBroadcastSender::new
BestEffortBroadcastSenderNew(processes) == [processes |-> processes]

\* BestEffortBroadcastSender::broadcast when the first k sends return Ok:
\* the sends handed to the NetworkSender, in order, and the result.  With
\* k below the number of processes the next send returned an error and `?`
\* ended the loop.
broadcast_SkipsLast(sender, message, k) ==
    [status |-> IF k < Len(sender.processes) THEN "Err" ELSE "Ok",
     sends  |-> [i \in 1..(k - 1) |->
                    [dst |-> sender.processes[i], msg |-> message]]]
broadcast(sender, message, k) ==
    [status |-> IF k < Len(sender.processes) THEN "Err" ELSE "Ok",
     sends  |-> [i \in 1..k |->
                    [dst |-> sender.processes[i], msg |-> message]]]

BebBroadcast ==
    \E m \in BebMessages, k \in 0..Len(beb.sender.processes) :
        /\ beb.calls < MaxBroadcasts
        /\ LET r == broadcast(beb.sender, m, k)
           IN  beb' = [beb EXCEPT !.sends = r.sends,
                                  !.status = r.status,
                                  !.message = m,
                                  !.calls = @ + 1]
        /\ UNCHANGED <<hostVars, sysVars, ipn, tpc>>

\* the failure detector reports a process of the membership as crashed
BebCrash ==
    \E p \in Elems(beb.membership) \ beb.reported :
        /\ beb' = [beb EXCEPT !.reported = @ \cup {p}]
        /\ UNCHANGED <<hostVars, sysVars, ipn, tpc>>

BebInit ==
    /\ \E processes \in BebMemberships :
          beb = [membership |-> processes,
                 sender     |-> BestEffortBroadcastSenderNew(processes),
                 reported   |-> {},
                 sends      |-> <<>>,
                 status     |-> "None",
                 message    |-> 0,
                 calls      |-> 0]
    /\ ipn = <<>>
    /\ tpc = <<>>
    /\ HostIdle
    /\ SysIdle

BebNext ==
    \/ BebBroadcast
    \/ BebCrash

BebSpec == BebInit /\ [][BebNext]_vars

MaxSends == 3

\* the processes messages are addressed to, and those the owner registers
IpnProcs == {1, 2, 3}
IpnRegistrable == {1, 2}

ControlMessage(process, id) == [kind |-> "Message", process |-> process, id |-> id]
ControlShutdown == [kind |-> "Shutdown", process |-> 0, id |-> 0]

\* whether the dispatcher thread has ended, which drops the channel's
\* receiving half: a send on the channel then returns an error
DispatcherEnded == ipn.dispatcher \in {"done", "panicked"}

\* IntraProcessNetwork::new: an empty channel, an empty map, the dispatcher
\* thread waiting in recv()
IntraProcessNetworkNew ==
    [queue      |-> <<>>,
     process_to_receiver |-> {},
     delivered  |-> [q \in IpnProcs |-> <<>>],
     dispatcher |-> "recv",
     current    |-> ControlShutdown,
     owner      |-> "running",
     senders    |-> "running",
     sends      |-> 0,
     log        |-> <<>>]

\* IntraProcessNetwork::add_process: lock().unwrap() panics when the
\* dispatcher panicked while it held the lock
add_process ==
    \E process \in IpnRegistrable :
        /\ ipn.owner = "running"
        /\ ipn' = IF ipn.dispatcher = "panicked"
                  THEN [ipn EXCEPT !.owner = "panicked"]
                  ELSE [ipn EXCEPT !.process_to_receiver = @ \cup {process}]
        /\ UNCHANGED <<hostVars, sysVars, beb, tpc>>

\* IntraProcessNetworkSender::send: the unwrap panics when the channel is
\* closed.  The log keeps, for each send, its target, whether the target
\* was registered and whether shutdown() had been called.
send ==
    \E process \in IpnProcs :
        /\ ipn.sends < MaxSends
        /\ ipn.senders = "running"
        /\ ipn' = IF DispatcherEnded
                  THEN [ipn EXCEPT !.senders = "panicked"]
                  ELSE [ipn EXCEPT
                           !.queue = Append(@, ControlMessage(process, ipn.sends + 1)),
                           !.sends = @ + 1,
                           !.log = Append(@,
                               [process    |-> process,
                                registered |-> process \in ipn.process_to_receiver,
                                before     |-> ipn.owner = "running"])]
        /\ UNCHANGED <<hostVars, sysVars, beb, tpc>>

\* shutdown(), line 93: the Shutdown control message is sent; an error of
\* the send is returned to the caller
shutdown_send ==
    /\ ipn.owner = "running"
    /\ ipn' = IF DispatcherEnded
              THEN [ipn EXCEPT !.owner = "returned Err"]
              ELSE [ipn EXCEPT !.queue = Append(@, ControlShutdown),
                               !.owner = "joining"]
    /\ UNCHANGED <<hostVars, sysVars, beb, tpc>>

\* shutdown(), lines 94..95: join() returns when the dispatcher thread has
\* ended, its result is dropped and shutdown() returns Ok
shutdown_join ==
    /\ ipn.owner = "joining"
    /\ DispatcherEnded
    /\ ipn' = [ipn EXCEPT !.owner = "returned Ok"]
    /\ UNCHANGED <<hostVars, sysVars, beb, tpc>>

\* the dispatcher's receiver.recv(), lines 60 and 66: the next control
\* message in channel order; Shutdown ends the loop
dispatcher_recv ==
    /\ ipn.dispatcher = "recv"
    /\ ipn.queue # <<>>
    /\ ipn' = IF Head(ipn.queue).kind = "Shutdown"
              THEN [ipn EXCEPT !.queue = <<>>, !.dispatcher = "done"]
              ELSE [ipn EXCEPT !.queue = Tail(@),
                               !.current = Head(ipn.queue),
                               !.dispatcher = "locking"]
    /\ UNCHANGED <<hostVars, sysVars, beb, tpc>>

\* lines 62..64: under the lock, get_mut(&process).unwrap() and deliver();
\* the unwrap panics on a process that is not in the map, which ends the
\* thread and closes the channel
dispatcher_deliver ==
    /\ ipn.dispatcher = "locking"
    /\ ipn' = IF ipn.current.process \in ipn.process_to_receiver
              THEN [ipn EXCEPT
                       !.delivered[ipn.current.process] = Append(@, ipn.current.id),
                       !.dispatcher = "recv"]
              ELSE [ipn EXCEPT !.queue = <<>>, !.dispatcher = "panicked"]
    /\ UNCHANGED <<hostVars, sysVars, beb, tpc>>

IpnInit ==
    /\ ipn = IntraProcessNetworkNew
    /\ beb = <<>>
    /\ tpc = <<>>
    /\ HostIdle
    /\ SysIdle

IpnNext ==
    \/ add_process
    \/ send
    \/ shutdown_send
    \/ shutdown_join
    \/ dispatcher_recv
    \/ dispatcher_deliver

IpnSpec == IpnInit /\ [][IpnNext]_vars

\* the number of times message id was handed to the receiver of q
Deliveries(q, id) ==
    Cardinality({i \in 1..Len(ipn.delivered[q]) : ipn.delivered[q][i] = id})

\* C22: when shutdown() has returned, every message that was sent to a
\* registered process before shutdown() was called has been delivered once
\* to that process's receiver and to no other receiver.
DeliveredBeforeShutdownReturns ==
    ipn.owner \in {"returned Ok", "returned Err"} =>
        \A id \in 1..Len(ipn.log) :
            (ipn.log[id].registered /\ ipn.log[id].before) =>
                \A q \in IpnProcs :
                    Deliveries(q, id) = IF q = ipn.log[id].process THEN 1 ELSE 0

\* C23: when the convergence check decides, the decision d is the selection
\* (the minimum) among proposals[round] of the current round alone, the
\* returned list is exactly [UpdateContext(c), Broadcast(Decided(d)),
\* Decide(d)], and c is the checked context with decision Some(d), its round
\* unchanged.
DecideBranch ==
    (checked.ran /\ HasAction(result.actions, "Decide")) =>
        LET c == checked.context
            d == Min(Elems(Get(c.proposals, c.round)))
        IN  /\ Get(c.proposals, c.round) # <<>>
            /\ result.actions = <<UpdateContext([c EXCEPT !.decision = d]),
                                  Broadcast(Decided(d)),
                                  Decide(d)>>
            /\ c.round = prev.round
            /\ ctx = [c EXCEPT !.decision = d]

\* the check decided while the previous round's proposals held a smaller
\* value than every proposal of the current round
DecideBranchWitness ==
    /\ checked.ran
    /\ HasAction(result.actions, "Decide")
    /\ Get(prev.proposals, prev.round - 1) # <<>>
    /\ Min(Elems(Get(prev.proposals, prev.round - 1))) < ctx.decision

\* the check ran with its preconditions on a context whose
\* received_from[round] and received_from[round - 1] hold different sets of
\* processes
CheckRanOnDifferentSets ==
    /\ checked.ran
    /\ LET c == checked.context
       IN  /\ InBounds(c.received_from, c.round)
           /\ Elems(c.correct) \subseteq Elems(Get(c.received_from, c.round))
           /\ c.decision = None
           /\ Elems(Get(c.received_from, c.round))
                  # Elems(Get(c.received_from, c.round - 1))

\* C24: when the preconditions hold and the respondent sets differ, the
\* call returns exactly [UpdateContext(c), Broadcast(Proposal(round + 1,
\* proposals[round]))], c being the checked context with round + 1 and
\* decision None.
AdvanceBranch ==
    CheckRanOnDifferentSets =>
        LET c == checked.context
            n == [c EXCEPT !.round = c.round + 1]
        IN  /\ result.status = "Ok"
            /\ InBounds(c.proposals, c.round)
            /\ result.actions =
                  <<UpdateContext(n),
                    Broadcast(Proposal(c.round + 1, Get(c.proposals, c.round)))>>
            /\ ctx = n
            /\ ctx.decision = None

\* C25: a Deliver(p, Proposal(r, values)) from a process p that is not in
\* correct is recorded like any other: p is appended to received_from[r]
\* and values to proposals[r] of the returned context, and with r the
\* current round the convergence check has run on that context (the
\* selection error of the check apart).
UntrustedProposalRecorded ==
    (/\ IsDeliverProposal(lastEvent)
     /\ ~Contains(prev.correct, lastEvent.process)
     /\ result.status # "Err") =>
        LET r == lastEvent.message.round
        IN  /\ result.status = "Ok"
            /\ InBounds(ctx.received_from, r)
            /\ InBounds(ctx.proposals, r)
            /\ Get(ctx.received_from, r)
                   = Append(Get(prev.received_from, r), lastEvent.process)
            /\ Get(ctx.proposals, r)
                   = Get(prev.proposals, r) \o lastEvent.message.values
            /\ r = prev.round =>
                  /\ checked.ran
                  /\ checked.context =
                        RecordProposal(prev, lastEvent.process, r,
                                       lastEvent.message.values)

\* sequence a is an initial part of sequence b
IsPrefix(a, b) == Len(a) <= Len(b) /\ SubSeq(b, 1, Len(a)) = a

\* context c holds, round by round, the records of context p and possibly
\* more after them
ExtendsRecords(p, c) ==
    /\ Len(c.received_from) = Len(p.received_from)
    /\ Len(c.proposals) = Len(p.proposals)
    /\ \A n \in 1..Len(p.received_from) :
          IsPrefix(p.received_from[n], c.received_from[n])
    /\ \A n \in 1..Len(p.proposals) :
          IsPrefix(p.proposals[n], c.proposals[n])

\* C26: for every round, received_from and proposals of the context after
\* an event, and of every returned context, start with what they held
\* before it.
AppendOnlyRecords ==
    \A c \in UpdatedContexts(result.actions) \cup {ctx} : ExtendsRecords(prev, c)

\* a delivery added a process and a value to a round that already held one
\* of each
AppendOnlyRecordsWitness ==
    /\ IsDeliverProposal(lastEvent)
    /\ result.status = "Ok"
    /\ LET r == lastEvent.message.round
       IN  /\ Get(prev.received_from, r) # <<>>
           /\ Get(prev.proposals, r) # <<>>
           /\ Len(Get(ctx.received_from, r)) > Len(Get(prev.received_from, r))
           /\ Len(Get(ctx.proposals, r)) > Len(Get(prev.proposals, r))

\* C27: in every state each process appears at most once in
\* received_from[r], for every round r from 1 on (round 0, seeded with the
\* membership, apart).
ReceivedFromIsSet ==
    \A n \in 2..Len(ctx.received_from) :
        Cardinality(Elems(ctx.received_from[n])) = Len(ctx.received_from[n])

\* C28: a Crash(p) handled when the decision is Some returns no Broadcast
\* and no Decide and changes neither round nor decision; with p in correct
\* the list is exactly [UpdateContext(c)], c being the previous context
\* without p in correct, and with p not in correct it is empty.
CrashAfterDecision ==
    (IsCrash(lastEvent) /\ prev.decision # None) =>
        /\ result.status = "Ok"
        /\ ~HasAction(result.actions, "Broadcast")
        /\ ~HasAction(result.actions, "Decide")
        /\ ctx.round = prev.round
        /\ ctx.decision = prev.decision
        /\ IF Contains(prev.correct, lastEvent.process)
           THEN /\ Len(result.actions) = 1
                /\ result.actions[1].type = "UpdateContext"
                /\ LET c == result.actions[1].context
                   IN  /\ Elems(c.correct)
                              = Elems(prev.correct) \ {lastEvent.process}
                       /\ [c EXCEPT !.correct = prev.correct] = prev
                       /\ ctx = c
           ELSE result.actions = <<>>

\* the crashed process was the last one missing: without it correct is a
\* subset of received_from[round], and only the decision stops the check
CrashAfterDecisionWitness ==
    /\ IsCrash(lastEvent)
    /\ prev.decision # None
    /\ Contains(prev.correct, lastEvent.process)
    /\ ctx.correct # <<>>
    /\ Elems(ctx.correct) \subseteq Elems(Get(ctx.received_from, ctx.round))
    /\ Get(ctx.proposals, ctx.round) # <<>>

\* C29: the context FloodingContext::new returns has correct = membership,
\* round 1, decision None, received_from[0] = membership, every other
\* received_from entry empty and every proposals entry empty.
InitialContext ==
    nEvents = 0 =>
        /\ ctx.correct = members
        /\ ctx.round = 1
        /\ ctx.decision = None
        /\ InBounds(ctx.received_from, 0)
        /\ Get(ctx.received_from, 0) = members
        /\ \A r \in 1..(Len(ctx.received_from) - 1) :
              Get(ctx.received_from, r) = <<>>
        /\ \A r \in 0..(Len(ctx.proposals) - 1) : Get(ctx.proposals, r) = <<>>

\* a context over two processes, before its first event
InitialContextWitness ==
    /\ nEvents = 0
    /\ Len(members) = 2
    /\ Len(ctx.received_from) = 2
    /\ ctx.received_from[2] = <<>>

\* C30: as long as fewer Crash events than members have been handled, the
\* one at hand included, no call of event() panics on an index out of
\* bounds.
NoIndexPanic ==
    (/\ prev.correct # <<>>
     /\ ~(IsCrash(lastEvent) /\ prev.correct = <<lastEvent.process>>))
        => result.status # "Panic"

\* C31: round 0 is only a sentinel: in every reachable state
\* received_from[0] is the full original membership and proposals[0] is
\* empty, whatever events were handled, Deliver(p, Proposal(0, values))
\* included.
RoundZeroSentinel ==
    /\ InBounds(ctx.received_from, 0)
    /\ Get(ctx.received_from, 0) = members
    /\ InBounds(ctx.proposals, 0)
    /\ Get(ctx.proposals, 0) = <<>>

\* whether a message for a process that has no receiver in the map was
\* sent before message id
AfterUnknownTarget(id) ==
    \E j \in 1..(id - 1) : ipn.log[j].process \notin ipn.process_to_receiver

\* whether the receiver of q got its messages in the order of the sends
InSendOrder(q) ==
    \A i, j \in 1..Len(ipn.delivered[q]) :
        i < j => ipn.delivered[q][i] < ipn.delivered[q][j]

\* C34: a message sent to a process that was never registered does not
\* stop the dispatcher: the dispatcher thread never panics, and when
\* shutdown() has returned every message sent before it to a registered
\* process after such a message has been delivered to its receiver, each
\* receiver getting its messages in the order they were sent.
DispatchSurvivesUnknownTarget ==
    /\ ipn.dispatcher # "panicked"
    /\ ipn.owner \in {"returned Ok", "returned Err"} =>
          \A id \in 1..Len(ipn.log) :
              (/\ ipn.log[id].registered
               /\ ipn.log[id].before
               /\ AfterUnknownTarget(id)) =>
                  /\ Deliveries(ipn.log[id].process, id) = 1
                  /\ InSendOrder(ipn.log[id].process)

(***************************************************************************)
(* The two-phase-commit context: TwoPhaseCommitContextBuilder, the unified *)
(* TwoPhaseCommitRoleContext and the conversions between the unified and   *)
(* the role-typed contexts.                                                *)
(***************************************************************************)
\* the values the builder's methods are called with
TpcProcesses == {1, 2}
TpcTimes == {1}
TpcEpochs == {1, 2}
TpcProcessLists == {<<>>, <<1, 2>>}

\* Option<X>
NoneOption == [some |-> FALSE]
Some(value) == [some |-> TRUE, value |-> value]

\* Result<X, InvalidStateError>
OkOf(value) == [status |-> "Ok", value |-> value]
InvalidStateError(message) ==
    [status |-> "Err", error |-> "InvalidStateError", message |-> message]

\* Participant::new
ParticipantNew(process) == [process |-> process]

TpcParticipantLists ==
    {[i \in 1..Len(ps) |-> ParticipantNew(ps[i])] : ps \in TpcProcessLists}

\* the states of each role: a coordinator's context starts in
\* WaitingForStart, a participant's in WaitingForVoteRequest
CoordinatorStates == {"WaitingForStart"}
ParticipantStates == {"WaitingForVoteRequest"}
TwoPhaseCommitStates == CoordinatorStates \cup ParticipantStates

\* TryFrom<TwoPhaseCommitState> for CoordinatorState and for
\* ParticipantState: a state of the other role is refused
CoordinatorStateTryFrom(s) ==
    IF s \in CoordinatorStates
    THEN OkOf([role |-> "Coordinator", name |-> s])
    ELSE InvalidStateError("invalid state for coordinator")

ParticipantStateTryFrom(s) ==
    IF s \in ParticipantStates
    THEN OkOf([role |-> "Participant", name |-> s])
    ELSE InvalidStateError("invalid state for participant")

\* From<CoordinatorState> and From<ParticipantState> for TwoPhaseCommitState
TwoPhaseCommitStateFrom(s) == s.name

\* TwoPhaseCommitContextBuilder::new
TwoPhaseCommitContextBuilderNew ==
    [alarm                 |-> NoneOption,
     coordinator           |-> NoneOption,
     epoch                 |-> NoneOption,
     last_commit_epoch     |-> NoneOption,
     participants          |-> NoneOption,
     participant_processes |-> NoneOption,
     state                 |-> NoneOption,
     this_process          |-> NoneOption]

\* the match of build() on (participants, participant_processes)
build_role_context(b) ==
    IF b.participants.some /\ ~b.participant_processes.some
    THEN LET s == CoordinatorStateTryFrom(b.state.value)
         IN  IF s.status = "Err"
             THEN s
             ELSE OkOf([inner   |-> "Coordinator",
                        context |-> [participants |-> b.participants.value,
                                     state        |-> s.value]])
    ELSE IF ~b.participants.some /\ b.participant_processes.some
    THEN LET s == ParticipantStateTryFrom(b.state.value)
         IN  IF s.status = "Err"
             THEN s
             ELSE OkOf([inner   |-> "Participant",
                        context |-> [participant_processes |->
                                         b.participant_processes.value,
                                     state |-> s.value]])
    ELSE IF b.participants.some /\ b.participant_processes.some
    THEN InvalidStateError(
             "participant and participant_processes fields are mutually exclusive")
    ELSE InvalidStateError(
             "exactly one of participant or particpant_processes fields required")

\* a build() that takes epoch 0, the epoch of a new context, when none was
\* given
build_DefaultsEpoch(b) ==
    IF ~b.coordinator.some
    THEN InvalidStateError("missing coordinator field")
    ELSE IF ~b.state.some
    THEN InvalidStateError("missing state field")
    ELSE IF ~b.this_process.some
    THEN InvalidStateError("missing this_process field")
    ELSE LET role_context == build_role_context(b)
         IN  IF role_context.status = "Err"
             THEN role_context
             ELSE OkOf([alarm             |-> b.alarm,
                        coordinator       |-> b.coordinator.value,
                        epoch             |-> IF b.epoch.some
                                              THEN b.epoch.value ELSE 0,
                        last_commit_epoch |-> b.last_commit_epoch,
                        role_context      |-> role_context.value,
                        this_process      |-> b.this_process.value])

\* TwoPhaseCommitContextBuilder::build
build(b) ==
    IF ~b.coordinator.some
    THEN InvalidStateError("missing coordinator field")
    ELSE IF ~b.epoch.some
    THEN InvalidStateError("missing epoch field")
    ELSE IF ~b.state.some
    THEN InvalidStateError("missing state field")
    ELSE IF ~b.this_process.some
    THEN InvalidStateError("missing this_process field")
    ELSE LET role_context == build_role_context(b)
         IN  IF role_context.status = "Err"
             THEN role_context
             ELSE OkOf([alarm             |-> b.alarm,
                        coordinator       |-> b.coordinator.value,
                        epoch             |-> b.epoch.value,
                        last_commit_epoch |-> b.last_commit_epoch,
                        role_context      |-> role_context.value,
                        this_process      |-> b.this_process.value])

\* TwoPhaseCommitContext<_, _, TwoPhaseCommitRoleContext>::participants,
\* ::participant_processes and ::state
participants(context) ==
    IF context.role_context.inner = "Coordinator"
    THEN Some(context.role_context.context.participants)
    ELSE NoneOption

participant_processes(context) ==
    IF context.role_context.inner = "Coordinator"
    THEN NoneOption
    ELSE Some(context.role_context.context.participant_processes)

state(context) == TwoPhaseCommitStateFrom(context.role_context.context.state)

\* TryFrom<TwoPhaseCommitRoleContext> for CoordinatorContext
CoordinatorContextTryFrom(role_context) ==
    IF role_context.inner = "Coordinator"
    THEN OkOf(role_context.context)
    ELSE InvalidStateError(
             "unable to convert TwoPhaseCommitRoleContext to CoordinatorContext")

\* TryFrom<TwoPhaseCommitRoleContext> for ParticipantContext
ParticipantContextTryFrom(role_context) ==
    IF role_context.inner = "Participant"
    THEN OkOf(role_context.context)
    ELSE InvalidStateError(
             "unable to convert TwoPhaseCommitRoleContext to ParticipantContext")

\* From<CoordinatorContext> and From<ParticipantContext> for
\* TwoPhaseCommitRoleContext
RoleContextFromCoordinator(context) ==
    [inner |-> "Coordinator", context |-> context]

RoleContextFromParticipant(context) ==
    [inner |-> "Participant", context |-> context]

\* TryFrom of the unified context for the coordinator's context
TryIntoCoordinator(context) ==
    LET role_context == CoordinatorContextTryFrom(context.role_context)
    IN  IF role_context.status = "Err"
        THEN role_context
        ELSE OkOf([alarm             |-> context.alarm,
                   coordinator       |-> context.coordinator,
                   epoch             |-> context.epoch,
                   last_commit_epoch |-> context.last_commit_epoch,
                   role_context      |-> role_context.value,
                   this_process      |-> context.this_process])

\* TryFrom of the unified context for the participant's context
TryIntoParticipant(context) ==
    LET role_context == ParticipantContextTryFrom(context.role_context)
    IN  IF role_context.status = "Err"
        THEN role_context
        ELSE OkOf([alarm             |-> context.alarm,
                   coordinator       |-> context.coordinator,
                   epoch             |-> context.epoch,
                   last_commit_epoch |-> context.last_commit_epoch,
                   role_context      |-> role_context.value,
                   this_process      |-> context.this_process])

\* a conversion that fills the unified context the way
\* TwoPhaseCommitContext::new fills a new one: no alarm, epoch 0, no last
\* commit epoch
FromCoordinator_AsNew(context) ==
    [alarm             |-> NoneOption,
     coordinator       |-> context.coordinator,
     epoch             |-> 0,
     last_commit_epoch |-> NoneOption,
     role_context      |-> RoleContextFromCoordinator(context.role_context),
     this_process      |-> context.this_process]

\* From of the coordinator's context for the unified context
FromCoordinator(context) ==
    [alarm             |-> context.alarm,
     coordinator       |-> context.coordinator,
     epoch             |-> context.epoch,
     last_commit_epoch |-> context.last_commit_epoch,
     role_context      |-> RoleContextFromCoordinator(context.role_context),
     this_process      |-> context.this_process]

\* From of the participant's context for the unified context
FromParticipant(context) ==
    [alarm             |-> context.alarm,
     coordinator       |-> context.coordinator,
     epoch             |-> context.epoch,
     last_commit_epoch |-> context.last_commit_epoch,
     role_context      |-> RoleContextFromParticipant(context.role_context),
     this_process      |-> context.this_process]

\* no value yet
NotYet == [status |-> "None"]

\* a caller of the builder: the with_ methods in any order, build(), then a
\* conversion of the built context to one role's context and back
TpcUnchanged == UNCHANGED <<hostVars, sysVars, beb, ipn>>

with_alarm ==
    \E alarm \in TpcTimes :
        /\ tpc.stage = "builder"
        /\ tpc' = [tpc EXCEPT !.builder.alarm = Some(alarm)]
        /\ TpcUnchanged

with_coordinator ==
    \E coordinator \in TpcProcesses :
        /\ tpc.stage = "builder"
        /\ tpc' = [tpc EXCEPT !.builder.coordinator = Some(coordinator)]
        /\ TpcUnchanged

with_epoch ==
    \E epoch \in TpcEpochs :
        /\ tpc.stage = "builder"
        /\ tpc' = [tpc EXCEPT !.builder.epoch = Some(epoch)]
        /\ TpcUnchanged

with_last_commit_epoch ==
    \E last_commit_epoch \in TpcEpochs :
        /\ tpc.stage = "builder"
        /\ tpc' = [tpc EXCEPT
                      !.builder.last_commit_epoch = Some(last_commit_epoch)]
        /\ TpcUnchanged

with_participants ==
    \E ps \in TpcParticipantLists :
        /\ tpc.stage = "builder"
        /\ tpc' = [tpc EXCEPT !.builder.participants = Some(ps)]
        /\ TpcUnchanged

with_participant_processes ==
    \E ps \in TpcProcessLists :
        /\ tpc.stage = "builder"
        /\ tpc' = [tpc EXCEPT !.builder.participant_processes = Some(ps)]
        /\ TpcUnchanged

with_state ==
    \E s \in TwoPhaseCommitStates :
        /\ tpc.stage = "builder"
        /\ tpc' = [tpc EXCEPT !.builder.state = Some(s)]
        /\ TpcUnchanged

with_this_process ==
    \E this_process \in TpcProcesses :
        /\ tpc.stage = "builder"
        /\ tpc' = [tpc EXCEPT !.builder.this_process = Some(this_process)]
        /\ TpcUnchanged

Build ==
    /\ tpc.stage = "builder"
    /\ tpc' = [tpc EXCEPT !.stage = "built", !.built = build(tpc.builder)]
    /\ TpcUnchanged

ConvertToCoordinator ==
    /\ tpc.stage = "built"
    /\ tpc.built.status = "Ok"
    /\ tpc' = [tpc EXCEPT !.stage = "typed",
                          !.target = "Coordinator",
                          !.typed = TryIntoCoordinator(tpc.built.value)]
    /\ TpcUnchanged

ConvertToParticipant ==
    /\ tpc.stage = "built"
    /\ tpc.built.status = "Ok"
    /\ tpc' = [tpc EXCEPT !.stage = "typed",
                          !.target = "Participant",
                          !.typed = TryIntoParticipant(tpc.built.value)]
    /\ TpcUnchanged

ReunifyCoordinator ==
    /\ tpc.stage = "typed"
    /\ tpc.target = "Coordinator"
    /\ tpc.typed.status = "Ok"
    /\ tpc' = [tpc EXCEPT !.stage = "reunified",
                          !.reunified = OkOf(FromCoordinator(tpc.typed.value))]
    /\ TpcUnchanged

ReunifyParticipant ==
    /\ tpc.stage = "typed"
    /\ tpc.target = "Participant"
    /\ tpc.typed.status = "Ok"
    /\ tpc' = [tpc EXCEPT !.stage = "reunified",
                          !.reunified = OkOf(FromParticipant(tpc.typed.value))]
    /\ TpcUnchanged

TpcInit ==
    /\ tpc = [stage     |-> "builder",
              builder   |-> TwoPhaseCommitContextBuilderNew,
              built     |-> NotYet,
              target    |-> "None",
              typed     |-> NotYet,
              reunified |-> NotYet]
    /\ beb = <<>>
    /\ ipn = <<>>
    /\ HostIdle
    /\ SysIdle

TpcNext ==
    \/ with_alarm
    \/ with_coordinator
    \/ with_epoch
    \/ with_last_commit_epoch
    \/ with_participants
    \/ with_participant_processes
    \/ with_state
    \/ with_this_process
    \/ Build
    \/ ConvertToCoordinator
    \/ ConvertToParticipant
    \/ ReunifyCoordinator
    \/ ReunifyParticipant

TpcSpec == TpcInit /\ [][TpcNext]_vars

\* C32: build() returns InvalidStateError when coordinator, epoch, state or
\* this_process is unset, when participants and participant_processes are
\* both set and when neither is; it returns a context of the Coordinator
\* role exactly when the four fields are set, only participants is set and
\* the state is a coordinator's, and one of the Participant role exactly
\* when the four are set, only participant_processes is set and the state
\* is a participant's; alarm and last_commit_epoch may be unset, and the
\* context carries all the given fields.
BuildOutcome ==
    tpc.stage # "builder" =>
        LET b == tpc.builder
            r == tpc.built
            required ==
                /\ b.coordinator.some
                /\ b.epoch.some
                /\ b.state.some
                /\ b.this_process.some
            asCoordinator ==
                /\ required
                /\ b.participants.some
                /\ ~b.participant_processes.some
                /\ b.state.value \in CoordinatorStates
            asParticipant ==
                /\ required
                /\ ~b.participants.some
                /\ b.participant_processes.some
                /\ b.state.value \in ParticipantStates
        IN  /\ r.status \in {"Ok", "Err"}
            /\ r.status = "Err" => r.error = "InvalidStateError"
            /\ ~required => r.status = "Err"
            /\ b.participants.some = b.participant_processes.some
                   => r.status = "Err"
            /\ asCoordinator <=>
                   (r.status = "Ok" /\ r.value.role_context.inner = "Coordinator")
            /\ asParticipant <=>
                   (r.status = "Ok" /\ r.value.role_context.inner = "Participant")
            /\ r.status = "Ok" =>
                   /\ r.value.alarm = b.alarm
                   /\ r.value.last_commit_epoch = b.last_commit_epoch
                   /\ r.value.coordinator = b.coordinator.value
                   /\ r.value.epoch = b.epoch.value
                   /\ r.value.this_process = b.this_process.value
                   /\ state(r.value) = b.state.value
                   /\ asCoordinator =>
                          participants(r.value) = b.participants
                   /\ asParticipant =>
                          participant_processes(r.value) = b.participant_processes

\* build() has returned a coordinator's context for a builder that was
\* given neither an alarm nor a last commit epoch
BuildOutcomeWitness ==
    /\ tpc.stage = "built"
    /\ tpc.built.status = "Ok"
    /\ tpc.built.value.role_context.inner = "Coordinator"
    /\ ~tpc.builder.alarm.some
    /\ ~tpc.builder.last_commit_epoch.some
    /\ tpc.built.value.role_context.context.participants # <<>>

\* C33: a unified context built as Coordinator converts to the
\* coordinator's context, and that one back to a unified context, with the
\* same alarm, coordinator, epoch, last commit epoch, state and list of
\* participants; the conversion of a unified context to the context of the
\* role it does not hold fails with InvalidStateError.
ContextRoundTrip ==
    tpc.stage \in {"typed", "reunified"} =>
        LET unified == tpc.built.value
            inner == unified.role_context.inner
        IN  /\ (inner = "Coordinator" /\ tpc.target = "Coordinator") =>
                   /\ tpc.typed.status = "Ok"
                   /\ LET typed == tpc.typed.value
                      IN  /\ typed.alarm = unified.alarm
                          /\ typed.coordinator = unified.coordinator
                          /\ typed.epoch = unified.epoch
                          /\ typed.last_commit_epoch = unified.last_commit_epoch
                          /\ TwoPhaseCommitStateFrom(typed.role_context.state)
                                 = state(unified)
                          /\ Some(typed.role_context.participants)
                                 = participants(unified)
                   /\ tpc.stage = "reunified" =>
                          LET reunified == tpc.reunified.value
                          IN  /\ reunified.alarm = unified.alarm
                              /\ reunified.coordinator = unified.coordinator
                              /\ reunified.epoch = unified.epoch
                              /\ reunified.last_commit_epoch
                                     = unified.last_commit_epoch
                              /\ reunified.role_context.inner = "Coordinator"
                              /\ state(reunified) = state(unified)
                              /\ participants(reunified) = participants(unified)
            /\ inner # tpc.target =>
                   /\ tpc.typed.status = "Err"
                   /\ tpc.typed.error = "InvalidStateError"

\* a coordinator's context with an alarm, a last commit epoch and two
\* participants has been converted and converted back
ContextRoundTripWitness ==
    /\ tpc.stage = "reunified"
    /\ tpc.target = "Coordinator"
    /\ tpc.builder.alarm.some
    /\ tpc.builder.last_commit_epoch.some
    /\ tpc.builder.epoch.value # tpc.builder.last_commit_epoch.value
    /\ Len(tpc.builder.participants.value) = 2

====
